---------------------------- MODULE Spec2Model ----------------------------
(***************************************************************************)
(* Model of scripts/minio_upload.py: the file-name sanitizer, the object   *)
(* key resolution, the upload sequence against the storage client and the  *)
(* console URL builder.                                                    *)
(*                                                                         *)
(* Strings are sequences of Unicode code points (integers).  Python's None *)
(* is the one-element sequence <<-1>>, which no string equals.             *)
(***************************************************************************)
EXTENDS Integers, Sequences, FiniteSets

VARIABLES
    pc,            \* position of the script: "import", "parse", "main", "config",
                   \* "client", "exists", "bucket", "fput", "presign", "output",
                   \* "exit"; "idle" when unused
    modules,       \* what the imports find: "installed", "no_urllib3", "no_minio"
    argv,          \* the command line: accepted, --help, or rejected by argparse
    sys_stdout,    \* standard output at start: "open", "closed", "failing"
    stdout_encoding, \* sys.stdout's encoding ("utf-8", "ascii") and error
                   \* handler ("strict", "surrogateescape")
    sys_stderr,    \* standard error at start: "open", "closed", "failing"
    args,          \* argparse namespace: file_path, name, title, expiry, json
    env,           \* the five MINIO_* environment variables
    file_exists,   \* what os.path.exists(args.file_path) answered: "yes", "no";
                   \* "unasked" before upload_file
    object_name,   \* the local object_name of main() / upload_file()
    presigned_url, \* the local presigned_url of main()
    calls,         \* storage-client calls made so far, in order
    stdout,        \* the texts that reached standard output
    stderr,        \* the texts that reached standard error
    exit_code,     \* -1 while running, then the process's exit status
    san_pc,        \* sanitizer harness: "idle", "start", "done"
    san_title,     \* sanitizer harness: the title argument
    san_max,       \* sanitizer harness: the max_length argument
    san_out,       \* sanitize_filename(san_title, san_max)
    san_twice,     \* sanitize_filename(san_out, san_max)
    url_pc,        \* console URL harness: "idle", "start", "done"
    url_in,        \* console URL harness: console_url, bucket, object_name
    url_out        \* generate_console_url(...) of url_in

\* what the process is started with, apart from the MINIO_* variables
environment == <<modules, argv, sys_stdout, stdout_encoding, sys_stderr>>

mainVars == <<pc, modules, argv, sys_stdout, stdout_encoding, sys_stderr, args,
              env, file_exists, object_name, presigned_url, calls, stdout,
              stderr, exit_code>>
sanVars == <<san_pc, san_title, san_max, san_out, san_twice>>
urlVars == <<url_pc, url_in, url_out>>
vars == <<mainVars, sanVars, urlVars>>

---------------------------------------------------------------------------
(* Bounds of the model.                                                    *)

MaxTitleLen == 5
MaxMaxLength == 6
MaxKeyLen == 3

---------------------------------------------------------------------------
(* Python values and string helpers.                                       *)

None == <<-1>>

Truthy(x) == x # None /\ x # <<>>

\* characters by code point
Underscore == 95
Space == 32
Slash == 47
Dot == 46
Percent == 37

\* s[:n] of Python, negative n included
SliceTo(s, n) ==
    LET k == IF n >= 0 THEN (IF n < Len(s) THEN n ELSE Len(s))
                       ELSE (IF Len(s) + n > 0 THEN Len(s) + n ELSE 0)
    IN  SubSeq(s, 1, k)

\* s.rfind(c), 1-based; 0 when c does not occur
RFind(s, c) ==
    LET hits == {i \in 1..Len(s) : s[i] = c}
    IN  IF hits = {} THEN 0 ELSE CHOOSE i \in hits : \A j \in hits : j <= i

\* s.rsplit(c, 1)[0]
RSplitHead(s, c) ==
    IF RFind(s, c) = 0 THEN s ELSE SubSeq(s, 1, RFind(s, c) - 1)

\* s.strip(chars) / s.rstrip(chars)
RECURSIVE RStripChars(_, _)
RStripChars(s, chars) ==
    IF s # <<>> /\ s[Len(s)] \in chars
    THEN RStripChars(SubSeq(s, 1, Len(s) - 1), chars)
    ELSE s

RECURSIVE LStripChars(_, _)
LStripChars(s, chars) ==
    IF s # <<>> /\ s[1] \in chars THEN LStripChars(Tail(s), chars) ELSE s

StripChars(s, chars) == LStripChars(RStripChars(s, chars), chars)

\* str.lower(), from the Unicode database of the interpreter (Unicode 14.0).
\* LowerRuns: <<first, last, step, delta>>: the code points first, first+step,
\* ..., last have the lowercase code point + delta.
LowerRuns ==
    << <<65, 90, 1, 32>>, <<192, 214, 1, 32>>, <<216, 222, 1, 32>>,
       <<256, 302, 2, 1>>, <<306, 310, 2, 1>>, <<313, 327, 2, 1>>,
       <<330, 374, 2, 1>>, <<376, 376, 1, -121>>, <<377, 381, 2, 1>>,
       <<385, 385, 1, 210>>, <<386, 388, 2, 1>>, <<390, 390, 1, 206>>,
       <<391, 391, 1, 1>>, <<393, 394, 1, 205>>, <<395, 395, 1, 1>>,
       <<398, 398, 1, 79>>, <<399, 399, 1, 202>>, <<400, 400, 1, 203>>,
       <<401, 401, 1, 1>>, <<403, 403, 1, 205>>, <<404, 404, 1, 207>>,
       <<406, 406, 1, 211>>, <<407, 407, 1, 209>>, <<408, 408, 1, 1>>,
       <<412, 412, 1, 211>>, <<413, 413, 1, 213>>, <<415, 415, 1, 214>>,
       <<416, 420, 2, 1>>, <<422, 422, 1, 218>>, <<423, 423, 1, 1>>,
       <<425, 425, 1, 218>>, <<428, 428, 1, 1>>, <<430, 430, 1, 218>>,
       <<431, 431, 1, 1>>, <<433, 434, 1, 217>>, <<435, 437, 2, 1>>,
       <<439, 439, 1, 219>>, <<440, 440, 1, 1>>, <<444, 444, 1, 1>>,
       <<452, 452, 1, 2>>, <<453, 453, 1, 1>>, <<455, 455, 1, 2>>,
       <<456, 456, 1, 1>>, <<458, 458, 1, 2>>, <<459, 475, 2, 1>>,
       <<478, 494, 2, 1>>, <<497, 497, 1, 2>>, <<498, 500, 2, 1>>,
       <<502, 502, 1, -97>>, <<503, 503, 1, -56>>, <<504, 542, 2, 1>>,
       <<544, 544, 1, -130>>, <<546, 562, 2, 1>>, <<570, 570, 1, 10795>>,
       <<571, 571, 1, 1>>, <<573, 573, 1, -163>>, <<574, 574, 1, 10792>>,
       <<577, 577, 1, 1>>, <<579, 579, 1, -195>>, <<580, 580, 1, 69>>,
       <<581, 581, 1, 71>>, <<582, 590, 2, 1>>, <<880, 882, 2, 1>>,
       <<886, 886, 1, 1>>, <<895, 895, 1, 116>>, <<902, 902, 1, 38>>,
       <<904, 906, 1, 37>>, <<908, 908, 1, 64>>, <<910, 911, 1, 63>>,
       <<913, 929, 1, 32>>, <<931, 939, 1, 32>>, <<975, 975, 1, 8>>,
       <<984, 1006, 2, 1>>, <<1012, 1012, 1, -60>>, <<1015, 1015, 1, 1>>,
       <<1017, 1017, 1, -7>>, <<1018, 1018, 1, 1>>, <<1021, 1023, 1, -130>>,
       <<1024, 1039, 1, 80>>, <<1040, 1071, 1, 32>>, <<1120, 1152, 2, 1>>,
       <<1162, 1214, 2, 1>>, <<1216, 1216, 1, 15>>, <<1217, 1229, 2, 1>>,
       <<1232, 1326, 2, 1>>, <<1329, 1366, 1, 48>>, <<4256, 4293, 1, 7264>>,
       <<4295, 4295, 1, 7264>>, <<4301, 4301, 1, 7264>>,
       <<5024, 5103, 1, 38864>>, <<5104, 5109, 1, 8>>,
       <<7312, 7354, 1, -3008>>, <<7357, 7359, 1, -3008>>,
       <<7680, 7828, 2, 1>>, <<7838, 7838, 1, -7615>>, <<7840, 7934, 2, 1>>,
       <<7944, 7951, 1, -8>>, <<7960, 7965, 1, -8>>, <<7976, 7983, 1, -8>>,
       <<7992, 7999, 1, -8>>, <<8008, 8013, 1, -8>>, <<8025, 8031, 2, -8>>,
       <<8040, 8047, 1, -8>>, <<8072, 8079, 1, -8>>, <<8088, 8095, 1, -8>>,
       <<8104, 8111, 1, -8>>, <<8120, 8121, 1, -8>>, <<8122, 8123, 1, -74>>,
       <<8124, 8124, 1, -9>>, <<8136, 8139, 1, -86>>, <<8140, 8140, 1, -9>>,
       <<8152, 8153, 1, -8>>, <<8154, 8155, 1, -100>>, <<8168, 8169, 1, -8>>,
       <<8170, 8171, 1, -112>>, <<8172, 8172, 1, -7>>,
       <<8184, 8185, 1, -128>>, <<8186, 8187, 1, -126>>,
       <<8188, 8188, 1, -9>>, <<8486, 8486, 1, -7517>>,
       <<8490, 8490, 1, -8383>>, <<8491, 8491, 1, -8262>>,
       <<8498, 8498, 1, 28>>, <<8544, 8559, 1, 16>>, <<8579, 8579, 1, 1>>,
       <<9398, 9423, 1, 26>>, <<11264, 11311, 1, 48>>, <<11360, 11360, 1, 1>>,
       <<11362, 11362, 1, -10743>>, <<11363, 11363, 1, -3814>>,
       <<11364, 11364, 1, -10727>>, <<11367, 11371, 2, 1>>,
       <<11373, 11373, 1, -10780>>, <<11374, 11374, 1, -10749>>,
       <<11375, 11375, 1, -10783>>, <<11376, 11376, 1, -10782>>,
       <<11378, 11378, 1, 1>>, <<11381, 11381, 1, 1>>,
       <<11390, 11391, 1, -10815>>, <<11392, 11490, 2, 1>>,
       <<11499, 11501, 2, 1>>, <<11506, 11506, 1, 1>>, <<42560, 42604, 2, 1>>,
       <<42624, 42650, 2, 1>>, <<42786, 42798, 2, 1>>, <<42802, 42862, 2, 1>>,
       <<42873, 42875, 2, 1>>, <<42877, 42877, 1, -35332>>,
       <<42878, 42886, 2, 1>>, <<42891, 42891, 1, 1>>,
       <<42893, 42893, 1, -42280>>, <<42896, 42898, 2, 1>>,
       <<42902, 42920, 2, 1>>, <<42922, 42922, 1, -42308>>,
       <<42923, 42923, 1, -42319>>, <<42924, 42924, 1, -42315>>,
       <<42925, 42925, 1, -42305>>, <<42926, 42926, 1, -42308>>,
       <<42928, 42928, 1, -42258>>, <<42929, 42929, 1, -42282>>,
       <<42930, 42930, 1, -42261>>, <<42931, 42931, 1, 928>>,
       <<42932, 42946, 2, 1>>, <<42948, 42948, 1, -48>>,
       <<42949, 42949, 1, -42307>>, <<42950, 42950, 1, -35384>>,
       <<42951, 42953, 2, 1>>, <<42960, 42960, 1, 1>>, <<42966, 42968, 2, 1>>,
       <<42997, 42997, 1, 1>>, <<65313, 65338, 1, 32>>,
       <<66560, 66599, 1, 40>>, <<66736, 66771, 1, 40>>,
       <<66928, 66938, 1, 39>>, <<66940, 66954, 1, 39>>,
       <<66956, 66962, 1, 39>>, <<66964, 66965, 1, 39>>,
       <<68736, 68786, 1, 64>>, <<71840, 71871, 1, 32>>,
       <<93760, 93791, 1, 32>>, <<125184, 125217, 1, 34>> >>

\* <<first, last>> ranges of the case-ignorable code points
CaseIgnorableRanges ==
    << <<39, 39>>, <<46, 46>>, <<58, 58>>, <<94, 94>>, <<96, 96>>,
       <<168, 168>>, <<173, 173>>, <<175, 175>>, <<180, 180>>, <<183, 184>>,
       <<688, 879>>, <<884, 885>>, <<890, 890>>, <<900, 901>>, <<903, 903>>,
       <<1155, 1161>>, <<1369, 1369>>, <<1375, 1375>>, <<1425, 1469>>,
       <<1471, 1471>>, <<1473, 1474>>, <<1476, 1477>>, <<1479, 1479>>,
       <<1524, 1524>>, <<1536, 1541>>, <<1552, 1562>>, <<1564, 1564>>,
       <<1600, 1600>>, <<1611, 1631>>, <<1648, 1648>>, <<1750, 1757>>,
       <<1759, 1768>>, <<1770, 1773>>, <<1807, 1807>>, <<1809, 1809>>,
       <<1840, 1866>>, <<1958, 1968>>, <<2027, 2037>>, <<2042, 2042>>,
       <<2045, 2045>>, <<2070, 2093>>, <<2137, 2139>>, <<2184, 2184>>,
       <<2192, 2193>>, <<2200, 2207>>, <<2249, 2306>>, <<2362, 2362>>,
       <<2364, 2364>>, <<2369, 2376>>, <<2381, 2381>>, <<2385, 2391>>,
       <<2402, 2403>>, <<2417, 2417>>, <<2433, 2433>>, <<2492, 2492>>,
       <<2497, 2500>>, <<2509, 2509>>, <<2530, 2531>>, <<2558, 2558>>,
       <<2561, 2562>>, <<2620, 2620>>, <<2625, 2626>>, <<2631, 2632>>,
       <<2635, 2637>>, <<2641, 2641>>, <<2672, 2673>>, <<2677, 2677>>,
       <<2689, 2690>>, <<2748, 2748>>, <<2753, 2757>>, <<2759, 2760>>,
       <<2765, 2765>>, <<2786, 2787>>, <<2810, 2815>>, <<2817, 2817>>,
       <<2876, 2876>>, <<2879, 2879>>, <<2881, 2884>>, <<2893, 2893>>,
       <<2901, 2902>>, <<2914, 2915>>, <<2946, 2946>>, <<3008, 3008>>,
       <<3021, 3021>>, <<3072, 3072>>, <<3076, 3076>>, <<3132, 3132>>,
       <<3134, 3136>>, <<3142, 3144>>, <<3146, 3149>>, <<3157, 3158>>,
       <<3170, 3171>>, <<3201, 3201>>, <<3260, 3260>>, <<3263, 3263>>,
       <<3270, 3270>>, <<3276, 3277>>, <<3298, 3299>>, <<3328, 3329>>,
       <<3387, 3388>>, <<3393, 3396>>, <<3405, 3405>>, <<3426, 3427>>,
       <<3457, 3457>>, <<3530, 3530>>, <<3538, 3540>>, <<3542, 3542>>,
       <<3633, 3633>>, <<3636, 3642>>, <<3654, 3662>>, <<3761, 3761>>,
       <<3764, 3772>>, <<3782, 3782>>, <<3784, 3789>>, <<3864, 3865>>,
       <<3893, 3893>>, <<3895, 3895>>, <<3897, 3897>>, <<3953, 3966>>,
       <<3968, 3972>>, <<3974, 3975>>, <<3981, 3991>>, <<3993, 4028>>,
       <<4038, 4038>>, <<4141, 4144>>, <<4146, 4151>>, <<4153, 4154>>,
       <<4157, 4158>>, <<4184, 4185>>, <<4190, 4192>>, <<4209, 4212>>,
       <<4226, 4226>>, <<4229, 4230>>, <<4237, 4237>>, <<4253, 4253>>,
       <<4348, 4348>>, <<4957, 4959>>, <<5906, 5908>>, <<5938, 5939>>,
       <<5970, 5971>>, <<6002, 6003>>, <<6068, 6069>>, <<6071, 6077>>,
       <<6086, 6086>>, <<6089, 6099>>, <<6103, 6103>>, <<6109, 6109>>,
       <<6155, 6159>>, <<6211, 6211>>, <<6277, 6278>>, <<6313, 6313>>,
       <<6432, 6434>>, <<6439, 6440>>, <<6450, 6450>>, <<6457, 6459>>,
       <<6679, 6680>>, <<6683, 6683>>, <<6742, 6742>>, <<6744, 6750>>,
       <<6752, 6752>>, <<6754, 6754>>, <<6757, 6764>>, <<6771, 6780>>,
       <<6783, 6783>>, <<6823, 6823>>, <<6832, 6862>>, <<6912, 6915>>,
       <<6964, 6964>>, <<6966, 6970>>, <<6972, 6972>>, <<6978, 6978>>,
       <<7019, 7027>>, <<7040, 7041>>, <<7074, 7077>>, <<7080, 7081>>,
       <<7083, 7085>>, <<7142, 7142>>, <<7144, 7145>>, <<7149, 7149>>,
       <<7151, 7153>>, <<7212, 7219>>, <<7222, 7223>>, <<7288, 7293>>,
       <<7376, 7378>>, <<7380, 7392>>, <<7394, 7400>>, <<7405, 7405>>,
       <<7412, 7412>>, <<7416, 7417>>, <<7468, 7530>>, <<7544, 7544>>,
       <<7579, 7679>>, <<8125, 8125>>, <<8127, 8129>>, <<8141, 8143>>,
       <<8157, 8159>>, <<8173, 8175>>, <<8189, 8190>>, <<8203, 8207>>,
       <<8216, 8217>>, <<8228, 8228>>, <<8231, 8231>>, <<8234, 8238>>,
       <<8288, 8292>>, <<8294, 8303>>, <<8305, 8305>>, <<8319, 8319>>,
       <<8336, 8348>>, <<8400, 8432>>, <<11388, 11389>>, <<11503, 11505>>,
       <<11631, 11631>>, <<11647, 11647>>, <<11744, 11775>>, <<11823, 11823>>,
       <<12293, 12293>>, <<12330, 12333>>, <<12337, 12341>>, <<12347, 12347>>,
       <<12441, 12446>>, <<12540, 12542>>, <<40981, 40981>>, <<42232, 42237>>,
       <<42508, 42508>>, <<42607, 42610>>, <<42612, 42621>>, <<42623, 42623>>,
       <<42652, 42655>>, <<42736, 42737>>, <<42752, 42785>>, <<42864, 42864>>,
       <<42888, 42890>>, <<42994, 42996>>, <<43000, 43001>>, <<43010, 43010>>,
       <<43014, 43014>>, <<43019, 43019>>, <<43045, 43046>>, <<43052, 43052>>,
       <<43204, 43205>>, <<43232, 43249>>, <<43263, 43263>>, <<43302, 43309>>,
       <<43335, 43345>>, <<43392, 43394>>, <<43443, 43443>>, <<43446, 43449>>,
       <<43452, 43453>>, <<43471, 43471>>, <<43493, 43494>>, <<43561, 43566>>,
       <<43569, 43570>>, <<43573, 43574>>, <<43587, 43587>>, <<43596, 43596>>,
       <<43632, 43632>>, <<43644, 43644>>, <<43696, 43696>>, <<43698, 43700>>,
       <<43703, 43704>>, <<43710, 43711>>, <<43713, 43713>>, <<43741, 43741>>,
       <<43756, 43757>>, <<43763, 43764>>, <<43766, 43766>>, <<43867, 43871>>,
       <<43881, 43883>>, <<44005, 44005>>, <<44008, 44008>>, <<44013, 44013>>,
       <<64286, 64286>>, <<64434, 64450>>, <<65024, 65039>>, <<65043, 65043>>,
       <<65056, 65071>>, <<65106, 65106>>, <<65109, 65109>>, <<65279, 65279>>,
       <<65287, 65287>>, <<65294, 65294>>, <<65306, 65306>>, <<65342, 65342>>,
       <<65344, 65344>>, <<65392, 65392>>, <<65438, 65439>>, <<65507, 65507>>,
       <<65529, 65531>>, <<66045, 66045>>, <<66272, 66272>>, <<66422, 66426>>,
       <<67456, 67461>>, <<67463, 67504>>, <<67506, 67514>>, <<68097, 68099>>,
       <<68101, 68102>>, <<68108, 68111>>, <<68152, 68154>>, <<68159, 68159>>,
       <<68325, 68326>>, <<68900, 68903>>, <<69291, 69292>>, <<69446, 69456>>,
       <<69506, 69509>>, <<69633, 69633>>, <<69688, 69702>>, <<69744, 69744>>,
       <<69747, 69748>>, <<69759, 69761>>, <<69811, 69814>>, <<69817, 69818>>,
       <<69821, 69821>>, <<69826, 69826>>, <<69837, 69837>>, <<69888, 69890>>,
       <<69927, 69931>>, <<69933, 69940>>, <<70003, 70003>>, <<70016, 70017>>,
       <<70070, 70078>>, <<70089, 70092>>, <<70095, 70095>>, <<70191, 70193>>,
       <<70196, 70196>>, <<70198, 70199>>, <<70206, 70206>>, <<70367, 70367>>,
       <<70371, 70378>>, <<70400, 70401>>, <<70459, 70460>>, <<70464, 70464>>,
       <<70502, 70508>>, <<70512, 70516>>, <<70712, 70719>>, <<70722, 70724>>,
       <<70726, 70726>>, <<70750, 70750>>, <<70835, 70840>>, <<70842, 70842>>,
       <<70847, 70848>>, <<70850, 70851>>, <<71090, 71093>>, <<71100, 71101>>,
       <<71103, 71104>>, <<71132, 71133>>, <<71219, 71226>>, <<71229, 71229>>,
       <<71231, 71232>>, <<71339, 71339>>, <<71341, 71341>>, <<71344, 71349>>,
       <<71351, 71351>>, <<71453, 71455>>, <<71458, 71461>>, <<71463, 71467>>,
       <<71727, 71735>>, <<71737, 71738>>, <<71995, 71996>>, <<71998, 71998>>,
       <<72003, 72003>>, <<72148, 72151>>, <<72154, 72155>>, <<72160, 72160>>,
       <<72193, 72202>>, <<72243, 72248>>, <<72251, 72254>>, <<72263, 72263>>,
       <<72273, 72278>>, <<72281, 72283>>, <<72330, 72342>>, <<72344, 72345>>,
       <<72752, 72758>>, <<72760, 72765>>, <<72767, 72767>>, <<72850, 72871>>,
       <<72874, 72880>>, <<72882, 72883>>, <<72885, 72886>>, <<73009, 73014>>,
       <<73018, 73018>>, <<73020, 73021>>, <<73023, 73029>>, <<73031, 73031>>,
       <<73104, 73105>>, <<73109, 73109>>, <<73111, 73111>>, <<73459, 73460>>,
       <<78896, 78904>>, <<92912, 92916>>, <<92976, 92982>>, <<92992, 92995>>,
       <<94031, 94031>>, <<94095, 94111>>, <<94176, 94177>>, <<94179, 94180>>,
       <<110576, 110579>>, <<110581, 110587>>, <<110589, 110590>>,
       <<113821, 113822>>, <<113824, 113827>>, <<118528, 118573>>,
       <<118576, 118598>>, <<119143, 119145>>, <<119155, 119170>>,
       <<119173, 119179>>, <<119210, 119213>>, <<119362, 119364>>,
       <<121344, 121398>>, <<121403, 121452>>, <<121461, 121461>>,
       <<121476, 121476>>, <<121499, 121503>>, <<121505, 121519>>,
       <<122880, 122886>>, <<122888, 122904>>, <<122907, 122913>>,
       <<122915, 122916>>, <<122918, 122922>>, <<123184, 123197>>,
       <<123566, 123566>>, <<123628, 123631>>, <<125136, 125142>>,
       <<125252, 125259>>, <<127995, 127999>>, <<917505, 917505>>,
       <<917536, 917631>>, <<917760, 917999>> >>

\* <<first, last>> ranges of the cased code points that are not case-ignorable
CasedRanges ==
    << <<65, 90>>, <<97, 122>>, <<170, 170>>, <<181, 181>>, <<186, 186>>,
       <<192, 214>>, <<216, 246>>, <<248, 442>>, <<444, 447>>, <<452, 659>>,
       <<661, 687>>, <<880, 883>>, <<886, 887>>, <<891, 893>>, <<895, 895>>,
       <<902, 902>>, <<904, 906>>, <<908, 908>>, <<910, 929>>, <<931, 1013>>,
       <<1015, 1153>>, <<1162, 1327>>, <<1329, 1366>>, <<1376, 1416>>,
       <<4256, 4293>>, <<4295, 4295>>, <<4301, 4301>>, <<4304, 4346>>,
       <<4349, 4351>>, <<5024, 5109>>, <<5112, 5117>>, <<7296, 7304>>,
       <<7312, 7354>>, <<7357, 7359>>, <<7424, 7467>>, <<7531, 7543>>,
       <<7545, 7578>>, <<7680, 7957>>, <<7960, 7965>>, <<7968, 8005>>,
       <<8008, 8013>>, <<8016, 8023>>, <<8025, 8025>>, <<8027, 8027>>,
       <<8029, 8029>>, <<8031, 8061>>, <<8064, 8116>>, <<8118, 8124>>,
       <<8126, 8126>>, <<8130, 8132>>, <<8134, 8140>>, <<8144, 8147>>,
       <<8150, 8155>>, <<8160, 8172>>, <<8178, 8180>>, <<8182, 8188>>,
       <<8450, 8450>>, <<8455, 8455>>, <<8458, 8467>>, <<8469, 8469>>,
       <<8473, 8477>>, <<8484, 8484>>, <<8486, 8486>>, <<8488, 8488>>,
       <<8490, 8493>>, <<8495, 8500>>, <<8505, 8505>>, <<8508, 8511>>,
       <<8517, 8521>>, <<8526, 8526>>, <<8544, 8575>>, <<8579, 8580>>,
       <<9398, 9449>>, <<11264, 11387>>, <<11390, 11492>>, <<11499, 11502>>,
       <<11506, 11507>>, <<11520, 11557>>, <<11559, 11559>>, <<11565, 11565>>,
       <<42560, 42605>>, <<42624, 42651>>, <<42786, 42863>>, <<42865, 42887>>,
       <<42891, 42894>>, <<42896, 42954>>, <<42960, 42961>>, <<42963, 42963>>,
       <<42965, 42969>>, <<42997, 42998>>, <<43002, 43002>>, <<43824, 43866>>,
       <<43872, 43880>>, <<43888, 43967>>, <<64256, 64262>>, <<64275, 64279>>,
       <<65313, 65338>>, <<65345, 65370>>, <<66560, 66639>>, <<66736, 66771>>,
       <<66776, 66811>>, <<66928, 66938>>, <<66940, 66954>>, <<66956, 66962>>,
       <<66964, 66965>>, <<66967, 66977>>, <<66979, 66993>>, <<66995, 67001>>,
       <<67003, 67004>>, <<68736, 68786>>, <<68800, 68850>>, <<71840, 71903>>,
       <<93760, 93823>>, <<119808, 119892>>, <<119894, 119964>>,
       <<119966, 119967>>, <<119970, 119970>>, <<119973, 119974>>,
       <<119977, 119980>>, <<119982, 119993>>, <<119995, 119995>>,
       <<119997, 120003>>, <<120005, 120069>>, <<120071, 120074>>,
       <<120077, 120084>>, <<120086, 120092>>, <<120094, 120121>>,
       <<120123, 120126>>, <<120128, 120132>>, <<120134, 120134>>,
       <<120138, 120144>>, <<120146, 120485>>, <<120488, 120512>>,
       <<120514, 120538>>, <<120540, 120570>>, <<120572, 120596>>,
       <<120598, 120628>>, <<120630, 120654>>, <<120656, 120686>>,
       <<120688, 120712>>, <<120714, 120744>>, <<120746, 120770>>,
       <<120772, 120779>>, <<122624, 122633>>, <<122635, 122654>>,
       <<125184, 125251>>, <<127280, 127305>>, <<127312, 127337>>,
       <<127344, 127369>> >>

InRanges(c, ranges) ==
    \E i \in 1..Len(ranges) : c >= ranges[i][1] /\ c <= ranges[i][2]

\* the lowercase of one code point out of context; U+0130 gives two
LowerChar(c) ==
    IF c = 304 THEN <<105, 775>>
    ELSE LET hits == {i \in 1..Len(LowerRuns) :
                         /\ c >= LowerRuns[i][1]
                         /\ c <= LowerRuns[i][2]
                         /\ (c - LowerRuns[i][1]) % LowerRuns[i][3] = 0}
         IN  IF hits = {} THEN <<c>>
             ELSE <<c + LowerRuns[CHOOSE i \in hits : TRUE][4]>>

\* the capital sigma at s[i] is final: the nearest code point before it that
\* is not case-ignorable is cased, and the nearest one after it is not
FinalSigma(s, i) ==
    LET before == {j \in 1..(i - 1) : ~InRanges(s[j], CaseIgnorableRanges)}
        after == {j \in (i + 1)..Len(s) : ~InRanges(s[j], CaseIgnorableRanges)}
    IN  /\ before # {}
        /\ InRanges(s[CHOOSE j \in before : \A k \in before : k <= j], CasedRanges)
        /\ \/ after = {}
           \/ ~InRanges(s[CHOOSE j \in after : \A k \in after : j <= k], CasedRanges)

RECURSIVE LowerFrom(_, _)
LowerFrom(s, i) ==
    IF i > Len(s) THEN <<>>
    ELSE (IF s[i] = 931
          THEN (IF FinalSigma(s, i) THEN <<962>> ELSE <<963>>)
          ELSE LowerChar(s[i])) \o LowerFrom(s, i + 1)

Lower(s) == LowerFrom(s, 1)

---------------------------------------------------------------------------
(* sanitize_filename                                                       *)

\* the class [<>:"/\\|?*\x00-\x1f]
IllegalChars == {60, 62, 58, 34, 47, 92, 124, 63, 42} \cup (0..31)

\* the class \s of a str pattern (Unicode whitespace)
WhitespaceChars ==
    (9..13) \cup (28..32) \cup {133, 160, 5760} \cup (8192..8202)
        \cup {8232, 8233, 8239, 8287, 12288}

\* re.sub(r'[<>:"/\\|?*\x00-\x1f]', '_', title)
ReplaceIllegal(s) ==
    [i \in 1..Len(s) |-> IF s[i] \in IllegalChars THEN Underscore ELSE s[i]]

\* re.sub(r'[\s_]+', '_', s): every maximal run becomes one underscore
RECURSIVE CollapseRuns(_)
CollapseRuns(s) ==
    LET run == WhitespaceChars \cup {Underscore}
    IN  IF s = <<>> THEN <<>>
        ELSE IF s[1] \in run
             THEN <<Underscore>> \o CollapseRuns(LStripChars(s, run))
             ELSE <<s[1]>> \o CollapseRuns(Tail(s))

FallbackName == <<102, 105, 108, 101>>   \* "file"

DefaultMaxLength == 100

\* variant: the "file" fallback is missing
sanitize_filename_noFallback(title, max_length) ==
    IF ~Truthy(title) THEN None
    ELSE LET stripped == StripChars(CollapseRuns(ReplaceIllegal(title)),
                                    {Space, Underscore})
         IN  IF Len(stripped) > max_length
             THEN RSplitHead(SliceTo(stripped, max_length), Underscore)
             ELSE stripped

\* variant: truncation keeps the partial token (no rsplit)
sanitize_filename_noRsplit(title, max_length) ==
    IF ~Truthy(title) THEN None
    ELSE LET stripped == StripChars(CollapseRuns(ReplaceIllegal(title)),
                                    {Space, Underscore})
             cut == IF Len(stripped) > max_length
                    THEN SliceTo(stripped, max_length)
                    ELSE stripped
         IN  IF cut # <<>> THEN cut ELSE FallbackName

\* variant: the illegal characters are not replaced
sanitize_filename_noReplace(title, max_length) ==
    IF ~Truthy(title) THEN None
    ELSE LET stripped == StripChars(CollapseRuns(title), {Space, Underscore})
             cut == IF Len(stripped) > max_length
                    THEN RSplitHead(SliceTo(stripped, max_length), Underscore)
                    ELSE stripped
         IN  IF cut # <<>> THEN cut ELSE FallbackName

\* variant: truncation is off by one
sanitize_filename_offByOne(title, max_length) ==
    IF ~Truthy(title) THEN None
    ELSE LET stripped == StripChars(CollapseRuns(ReplaceIllegal(title)),
                                    {Space, Underscore})
             cut == IF Len(stripped) > max_length
                    THEN RSplitHead(SliceTo(stripped, max_length + 1), Underscore)
                    ELSE stripped
         IN  IF cut # <<>> THEN cut ELSE FallbackName

sanitize_filename(title, max_length) ==
    IF ~Truthy(title) THEN None
    ELSE LET replaced == ReplaceIllegal(title)
             collapsed == CollapseRuns(replaced)
             stripped == StripChars(collapsed, {Space, Underscore})
             cut == IF Len(stripped) > max_length
                    THEN RSplitHead(SliceTo(stripped, max_length), Underscore)
                    ELSE stripped
         IN  IF cut # <<>> THEN cut ELSE FallbackName

---------------------------------------------------------------------------
(* get_file_extension, os.path.basename                                    *)

\* os.path.splitext(p)[1]: the last dot of the last segment onward, unless
\* only dots precede it in that segment
SplitExt(p) ==
    LET sepIndex == RFind(p, Slash)
        dotIndex == RFind(p, Dot)
    IN  IF dotIndex > sepIndex
           /\ \E i \in (sepIndex + 1)..(dotIndex - 1) : p[i] # Dot
        THEN SubSeq(p, dotIndex, Len(p))
        ELSE <<>>

get_file_extension(file_path) == Lower(SplitExt(file_path))

\* os.path.basename(p): what follows the last slash
basename(p) == SubSeq(p, RFind(p, Slash) + 1, Len(p))

---------------------------------------------------------------------------
(* generate_console_url                                                    *)

HexDigits == <<48, 49, 50, 51, 52, 53, 54, 55, 56, 57, 65, 66, 67, 68, 69, 70>>

\* what stands for an exception raised by a function
Raises == <<-3>>

\* a surrogate code point, U+D800..U+DFFF (a byte of argv or of a file name
\* that is not UTF-8 is decoded to one)
IsSurrogate(c) == c >= 55296 /\ c <= 57343

\* str.encode('utf-8') of one code point; UnicodeEncodeError on a surrogate
Utf8(c) ==
    IF IsSurrogate(c) THEN Raises
    ELSE IF c < 128 THEN <<c>>
    ELSE IF c < 2048 THEN <<192 + (c \div 64), 128 + (c % 64)>>
    ELSE IF c < 65536
         THEN <<224 + (c \div 4096), 128 + ((c \div 64) % 64), 128 + (c % 64)>>
         ELSE <<240 + (c \div 262144), 128 + ((c \div 4096) % 64),
                128 + ((c \div 64) % 64), 128 + (c % 64)>>

\* the bytes urllib.parse.quote never encodes: A-Z a-z 0-9 _ . - ~
AlwaysSafe == (65..90) \cup (97..122) \cup (48..57) \cup {95, 46, 45, 126}

QuoteByte(b, safe) ==
    IF b \in AlwaysSafe \cup safe
    THEN <<b>>
    ELSE <<Percent, HexDigits[(b \div 16) + 1], HexDigits[(b % 16) + 1]>>

RECURSIVE QuoteBytes(_, _)
QuoteBytes(bytes, safe) ==
    IF bytes = <<>> THEN <<>>
    ELSE QuoteByte(bytes[1], safe) \o QuoteBytes(Tail(bytes), safe)

RECURSIVE QuoteChars(_, _)
QuoteChars(string, safe) ==
    IF string = <<>> THEN <<>>
    ELSE QuoteBytes(Utf8(string[1]), safe) \o QuoteChars(Tail(string), safe)

\* urllib.parse.quote(string, safe): the string is encoded to UTF-8 as a
\* whole, which raises when it holds a surrogate, and then quoted byte by byte
quote(string, safe) ==
    IF \E i \in 1..Len(string) : Utf8(string[i]) = Raises
    THEN Raises
    ELSE QuoteChars(string, safe)

BrowserPath == <<47, 98, 114, 111, 119, 115, 101, 114, 47>>   \* "/browser/"

\* variant: quote() called with safe='' so that '/' is encoded too
generate_console_url_safeNone(console_url, bucket, key) ==
    IF quote(key, {}) = Raises THEN Raises
    ELSE RStripChars(console_url, {Slash}) \o BrowserPath \o bucket \o <<Slash>>
             \o quote(key, {})

\* Raises when quote() raises
generate_console_url(console_url, bucket, key) ==
    LET encoded_object == quote(key, {Slash})
    IN  IF encoded_object = Raises THEN Raises
        ELSE RStripChars(console_url, {Slash}) \o BrowserPath \o bucket
                 \o <<Slash>> \o encoded_object

---------------------------------------------------------------------------
(* Inputs of one invocation of main().                                     *)

Titles ==
    { None, <<>>,
      <<77, 121, 32, 86, 105, 100, 101, 111, 33>>,       \* "My Video!"
      <<63, 63>> }                                       \* "??"

Names ==
    { None, <<>>,
      <<105, 103, 110, 111, 114, 101, 100, 46, 109, 112, 52>> }  \* "ignored.mp4"

FilePaths ==
    { <<120, 46, 109, 112, 52>>,                                 \* "x.mp4"
      <<47, 116, 109, 112, 47, 114, 101, 112, 111, 114, 116, 46, 112, 100, 102>>,
                                                                 \* "/tmp/report.pdf"
      <<47, 116, 109, 112, 47>>,                                 \* "/tmp/"
      <<110, 111, 101, 120, 116>>,                               \* "noext"
      <<47, 118, 47, 67, 108, 105, 112, 46, 77, 80, 52>>,        \* "/v/Clip.MP4"
      <<56448, 46, 97>>,                       \* the byte 0x80 (U+DC80), ".a"
      <<120, 46, 304>>,                                          \* "x." U+0130
      <<120, 46, 65, 931>> }                                     \* "x.A" U+03A3

DefaultExpiry == 7

\* timedelta(days=...) raises OverflowError beyond this magnitude
MaxTimedeltaDays == 999999999

Expiries == {DefaultExpiry, MaxTimedeltaDays + 1}

ExampleConsoleUrl ==   \* "https://console.example.com/"
    <<104, 116, 116, 112, 115, 58, 47, 47, 99, 111, 110, 115, 111, 108, 101, 46,
      101, 120, 97, 109, 112, 108, 101, 46, 99, 111, 109, 47>>

ExampleBucket == <<109, 101, 100, 105, 97>>   \* "media"

EnvComplete ==
    [ api_url |-> <<104, 116, 116, 112, 115, 58, 47, 47, 109, 105, 110, 105, 111,
                    46, 101, 120, 97, 109, 112, 108, 101, 46, 99, 111, 109>>,
      console_url |-> ExampleConsoleUrl,
      access_key |-> <<97, 107>>,
      secret_key |-> <<115, 107>>,
      bucket |-> ExampleBucket ]

Envs ==
    { EnvComplete,
      [EnvComplete EXCEPT !.bucket = None],         \* MINIO_BUCKET unset
      [EnvComplete EXCEPT !.console_url = <<>>],    \* MINIO_CONSOLE_URL empty
      [EnvComplete EXCEPT !.bucket = <<109, 233, 100, 105, 97>>] }   \* "m\u00e9dia"

\* What the storage client's presigned_get_object returns: opaque to the
\* program, determined by the client from its arguments.
PresignedUrlOf(bucket, key, days) ==
    <<-2>> \o bucket \o <<-2>> \o key \o <<-2, days>>

\* the namespaces parse_args() can return
Namespaces ==
    [file_path : FilePaths, name : Names, title : Titles,
     expiry : Expiries, json : BOOLEAN]

\* the value of args before parse_args() has returned
Unparsed ==
    [file_path |-> <<>>, name |-> None, title |-> None,
     expiry |-> DefaultExpiry, json |-> FALSE]

\* command lines: one argparse accepts (with the namespace it yields), one
\* holding -h/--help, one argparse rejects (no file_path, --expiry abc, an
\* unknown option)
CommandLines ==
    [kind : {"accepted"}, namespace : Namespaces]
        \cup [kind : {"help", "rejected"}, namespace : {Unparsed}]

\* a standard stream at start: open; closed (sys.stdout / sys.stderr is None);
\* or open on something that refuses the bytes (a full device, a file size
\* limit, a closed pipe)
StreamStates == {"open", "closed", "failing"}

\* the imports of lines 8-22: everything installed, urllib3 missing (line 12),
\* or the minio package missing (lines 16-18)
ModuleStates == {"installed", "no_urllib3", "no_minio"}

\* how the interpreter opens standard output: the encoding, and the error
\* handler, which is surrogateescape by default (POSIX or C locale, UTF-8
\* mode) and strict when PYTHONIOENCODING names an encoding.  Standard error
\* always uses backslashreplace, which encodes any text.
StdoutEncodings ==
    [encoding : {"utf-8", "ascii"}, errors : {"strict", "surrogateescape"}]

DefaultStdoutEncoding == [encoding |-> "utf-8", errors |-> "surrogateescape"]

MainIdle ==
    /\ pc = "idle"
    /\ modules = "installed"
    /\ argv = [kind |-> "accepted", namespace |-> Unparsed]
    /\ sys_stdout = "open"
    /\ stdout_encoding = DefaultStdoutEncoding
    /\ sys_stderr = "open"
    /\ args = Unparsed
    /\ env = EnvComplete
    /\ file_exists = "unasked"
    /\ object_name = None
    /\ presigned_url = None
    /\ calls = <<>>
    /\ stdout = <<>>
    /\ stderr = <<>>
    /\ exit_code = -1

\* the encoding is varied where it decides something: on an open standard
\* output (a closed one encodes nothing, and a failing one already loses the
\* text with the same statuses)
MainInit ==
    /\ pc = "import"
    /\ modules \in ModuleStates
    /\ argv \in CommandLines
    /\ sys_stdout \in StreamStates
    /\ stdout_encoding \in
           (IF sys_stdout = "open" THEN StdoutEncodings
                                   ELSE {DefaultStdoutEncoding})
    /\ sys_stderr \in StreamStates
    /\ args = Unparsed
    /\ env \in Envs
    /\ file_exists = "unasked"
    /\ object_name = None
    /\ presigned_url = None
    /\ calls = <<>>
    /\ stdout = <<>>
    /\ stderr = <<>>
    /\ exit_code = -1

---------------------------------------------------------------------------
(* Writing to the standard streams and ending the process.                 *)

\* a text written in one piece: kind is "result", "error", "usage", "help",
\* "traceback" or "ignored"; whole is FALSE when only a proper prefix of the
\* text reached the stream
Text(kind, body) == [kind |-> kind, whole |-> TRUE, body |-> body]

\* what reaches a stream of the given state when text is written to it:
\* all of it; nothing (print() does nothing when the stream is None); or,
\* when the write fails, nothing or a proper prefix
Delivered(state, text) ==
    CASE state = "open" -> {<<text>>}
      [] state = "closed" -> {<<>>}
      [] state = "failing" -> {<<>>, <<[text EXCEPT !.whole = FALSE]>>}

\* the status after a write to a stream of the given state: a failed write
\* either raises at once (the status stays what the exit path gives) or stays
\* in the buffer until the flush at interpreter exit fails (status 120)
StatusAfterWrite(state, code) ==
    IF state = "failing" THEN {code, 120} ELSE {code}

\* the text of an exception, which the program does not determine
Opaque == <<-4>>

\* the surrogates that stand for the undecodable bytes 0x80..0xFF (U+DC80 to
\* U+DCFF), which the surrogateescape handler turns back into these bytes
IsEscapedByte(c) == c >= 56448 /\ c <= 56575

\* whether str.encode(encoding.encoding, encoding.errors) accepts the string
Encodable(string, encoding) ==
    \A i \in 1..Len(string) :
        IF IsSurrogate(string[i])
        THEN encoding.errors = "surrogateescape" /\ IsEscapedByte(string[i])
        ELSE encoding.encoding = "utf-8" \/ string[i] < 128

\* whether standard output can encode a message with the interpolated detail
Encodes(detail) ==
    IF detail = Opaque THEN BOOLEAN ELSE {Encodable(detail, stdout_encoding)}

\* the message of an error print: the fixed words and the interpolated value
ErrorText(message, detail) ==
    Text("error", [message |-> message, detail |-> detail])

\* print(on_stderr, file=sys.stderr) followed by sys.exit(code).  With
\* sys.stderr None, print() writes to sys.stdout instead: a detail its
\* encoder cannot encode raises UnicodeEncodeError out of print(), nothing is
\* written, and the traceback has no stream to go to (status 1).
ExitWith(code, on_stderr, on_stdout, detail) ==
    /\ pc' = "exit"
    /\ IF sys_stderr = "closed"
       THEN /\ IF sys_stdout = "open"
               THEN \E encoded \in Encodes(detail) :
                      IF encoded
                      THEN stdout' = Append(stdout, on_stdout) /\ exit_code' = code
                      ELSE stdout' = stdout /\ exit_code' = 1
               ELSE /\ \E d \in Delivered(sys_stdout, on_stdout) :
                          stdout' = stdout \o d
                    /\ exit_code' \in StatusAfterWrite(sys_stdout, code)
            /\ UNCHANGED stderr
       ELSE /\ \E d \in Delivered(sys_stderr, on_stderr) : stderr' = stderr \o d
            /\ exit_code' \in StatusAfterWrite(sys_stderr, code)
            /\ UNCHANGED stdout

Exit(code, message, detail) ==
    ExitWith(code, ErrorText(message, detail), ErrorText(message, detail), detail)

\* an exception that no handler of the script catches: the interpreter writes
\* the traceback to standard error (to nothing when it is closed) and ends
\* with status 1
Traceback ==
    /\ pc' = "exit"
    /\ \E d \in Delivered(sys_stderr, Text("traceback", "Traceback")) :
           stderr' = stderr \o d
    /\ exit_code' \in StatusAfterWrite(sys_stderr, 1)

Uncaught == Traceback /\ UNCHANGED stdout

\* the flush of standard output at interpreter exit failed: status 120 and
\* "Exception ignored ..." on standard error
FlushFails ==
    /\ pc' = "exit"
    /\ \E d \in Delivered(sys_stderr, Text("ignored", "Exception ignored")) :
           stderr' = stderr \o d
    /\ exit_code' = 120

\* argparse's -h/--help: print_help() writes to sys.stdout, to sys.stderr when
\* sys.stdout is None, swallows a failing write, and exits with status 0
PrintHelp ==
    LET help == Text("help", "usage and options")
    IN  CASE sys_stdout = "open" ->
               /\ stdout' = Append(stdout, help)
               /\ pc' = "exit"
               /\ exit_code' = 0
               /\ UNCHANGED stderr
          [] sys_stdout = "failing" ->
               /\ \E d \in Delivered(sys_stdout, help) : stdout' = stdout \o d
               /\ \/ pc' = "exit" /\ exit_code' = 0 /\ UNCHANGED stderr
                  \/ FlushFails
          [] sys_stdout = "closed" ->
               /\ \E d \in Delivered(sys_stderr, help) : stderr' = stderr \o d
               /\ pc' = "exit"
               /\ exit_code' \in StatusAfterWrite(sys_stderr, 0)
               /\ UNCHANGED stdout

\* lines 8-22: import urllib3 (a missing module is an ImportError nothing
\* catches), then the guarded import of minio
ImportModules ==
    /\ pc = "import"
    /\ CASE modules = "installed" ->
              pc' = "parse" /\ UNCHANGED <<stdout, stderr, exit_code>>
         [] modules = "no_urllib3" -> Uncaught
         [] modules = "no_minio" ->
              Exit(1, "Error: minio Python package not installed.", <<>>)
    /\ UNCHANGED <<environment, args,
                   env, file_exists, object_name, presigned_url, calls>>
    /\ UNCHANGED <<sanVars, urlVars>>

\* main(): parser.parse_args()
ParseArgs ==
    /\ pc = "parse"
    /\ CASE argv.kind = "accepted" ->
              /\ args' = argv.namespace
              /\ pc' = "main"
              /\ UNCHANGED <<stdout, stderr, exit_code>>
         [] argv.kind = "help" -> PrintHelp /\ UNCHANGED args
         [] argv.kind = "rejected" ->
              /\ ExitWith(2, Text("usage", "usage and error"),
                             Text("usage", "usage"), <<>>)
              /\ UNCHANGED args
    /\ UNCHANGED <<environment, env, file_exists, object_name,
                   presigned_url, calls>>
    /\ UNCHANGED <<sanVars, urlVars>>

---------------------------------------------------------------------------
(* main() after parse_args(): one action per step.                         *)

Call(op, key, result) ==
    [op |-> op, bucket |-> env.bucket, key |-> key, result |-> result]

\* variant: --name is looked at before --title
ResolveObjectName_nameFirst ==
    /\ pc = "main"
    /\ object_name' =
         IF Truthy(args.name) THEN args.name
         ELSE IF Truthy(args.title)
              THEN sanitize_filename(args.title, DefaultMaxLength)
                       \o get_file_extension(args.file_path)
              ELSE None
    /\ pc' = "config"
    /\ UNCHANGED <<environment, args, env, file_exists,
                   presigned_url, calls, stdout, stderr, exit_code>>
    /\ UNCHANGED <<sanVars, urlVars>>

\* main(), "determine object_name"
ResolveObjectName ==
    /\ pc = "main"
    /\ object_name' =
         IF Truthy(args.title)
         THEN LET ext == get_file_extension(args.file_path)
                  sanitized_title == sanitize_filename(args.title, DefaultMaxLength)
              IN  sanitized_title \o ext
         ELSE IF Truthy(args.name) THEN args.name
         ELSE None
    /\ pc' = "config"
    /\ UNCHANGED <<environment, args, env, file_exists,
                   presigned_url, calls, stdout, stderr, exit_code>>
    /\ UNCHANGED <<sanVars, urlVars>>

\* get_env_config()
GetEnvConfig ==
    /\ pc = "config"
    /\ IF \E k \in DOMAIN env : ~Truthy(env[k])
       THEN Exit(1, "Error: Missing environment variables", <<>>)
       ELSE pc' = "client" /\ UNCHANGED <<stdout, stderr, exit_code>>
    /\ UNCHANGED <<environment, args, env, file_exists,
                   object_name, presigned_url, calls>>
    /\ UNCHANGED <<sanVars, urlVars>>

\* parse_endpoint() and the construction of the PoolManager and of the Minio
\* client; the constructors may raise (an endpoint the client rejects)
CreateClient ==
    /\ pc = "client"
    /\ \/ pc' = "exists" /\ UNCHANGED <<stdout, stderr, exit_code>>
       \/ Uncaught
    /\ UNCHANGED <<environment, args, env, file_exists,
                   object_name, presigned_url, calls>>
    /\ UNCHANGED <<sanVars, urlVars>>

\* upload_file(): the os.path.exists test and the default of object_name
CheckFileExists ==
    /\ pc = "exists"
    /\ \E exists \in BOOLEAN :
         IF ~exists
         THEN /\ file_exists' = "no"
              /\ Exit(1, "Error: File not found", args.file_path)
              /\ UNCHANGED object_name
         ELSE /\ file_exists' = "yes"
              /\ object_name' = IF ~Truthy(object_name)
                                THEN basename(args.file_path)
                                ELSE object_name
              /\ pc' = "bucket"
              /\ UNCHANGED <<stdout, stderr, exit_code>>
    /\ UNCHANGED <<environment, args, env, presigned_url, calls>>
    /\ UNCHANGED <<sanVars, urlVars>>

\* variant: the sys.exit(1) after the bucket error message is missing
BucketExists_noExit ==
    /\ pc = "bucket"
    /\ \E result \in {"true", "false", "raise"} :
         /\ calls' = Append(calls, Call("bucket_exists", None, result))
         /\ IF result = "raise" THEN Uncaught
            ELSE /\ pc' = "fput"
                 /\ stderr' = IF result = "false"
                              THEN Append(stderr,
                                          ErrorText("Error: Bucket does not exist",
                                                    env.bucket))
                              ELSE stderr
                 /\ UNCHANGED <<stdout, exit_code>>
    /\ UNCHANGED <<environment, args, env, file_exists,
                   object_name, presigned_url>>
    /\ UNCHANGED <<sanVars, urlVars>>

\* upload_file(): client.bucket_exists(bucket)
BucketExists ==
    /\ pc = "bucket"
    /\ \E result \in {"true", "false", "raise"} :
         /\ calls' = Append(calls, Call("bucket_exists", None, result))
         /\ CASE result = "true" ->
                   pc' = "fput" /\ UNCHANGED <<stdout, stderr, exit_code>>
              [] result = "false" ->
                   Exit(1, "Error: Bucket does not exist", env.bucket)
              [] result = "raise" -> Uncaught
    /\ UNCHANGED <<environment, args, env, file_exists,
                   object_name, presigned_url>>
    /\ UNCHANGED <<sanVars, urlVars>>

\* variant: the sys.exit(1) of the S3Error handler is missing
FputObject_noExit ==
    /\ pc = "fput"
    /\ \E result \in {"ok", "S3Error", "raise"} :
         /\ calls' = Append(calls, Call("fput_object", object_name, result))
         /\ IF result = "raise" THEN Uncaught
            ELSE /\ pc' = "presign"
                 /\ stderr' = IF result = "S3Error"
                              THEN Append(stderr,
                                          ErrorText("Error uploading file", Opaque))
                              ELSE stderr
                 /\ UNCHANGED <<stdout, exit_code>>
    /\ UNCHANGED <<environment, args, env, file_exists,
                   object_name, presigned_url>>
    /\ UNCHANGED <<sanVars, urlVars>>

\* upload_file(): client.fput_object(bucket, object_name, file_path, ...);
\* content_type and metadata do not influence the control flow and are not
\* recorded
FputObject ==
    /\ pc = "fput"
    /\ \E result \in {"ok", "S3Error", "raise"} :
         /\ calls' = Append(calls, Call("fput_object", object_name, result))
         /\ CASE result = "ok" ->
                   pc' = "presign" /\ UNCHANGED <<stdout, stderr, exit_code>>
              [] result = "S3Error" -> Exit(1, "Error uploading file", Opaque)
              [] result = "raise" -> Uncaught
    /\ UNCHANGED <<environment, args, env, file_exists,
                   object_name, presigned_url>>
    /\ UNCHANGED <<sanVars, urlVars>>

TimedeltaOverflows(days) == days > MaxTimedeltaDays \/ days < -MaxTimedeltaDays

\* variant: the S3Error handler reports and returns None instead of exiting
PresignedGetObject_noExit ==
    /\ pc = "presign"
    /\ \E result \in {"ok", "S3Error", "raise"} :
         /\ calls' = Append(calls, Call("presigned_get_object", object_name, result))
         /\ IF result = "raise" \/ TimedeltaOverflows(args.expiry)
            THEN Uncaught /\ UNCHANGED presigned_url
            ELSE /\ presigned_url' =
                      IF result = "ok"
                      THEN PresignedUrlOf(env.bucket, object_name, args.expiry)
                      ELSE None
                 /\ stderr' = IF result = "S3Error"
                              THEN Append(stderr,
                                          ErrorText("Error generating URL", Opaque))
                              ELSE stderr
                 /\ pc' = "output"
                 /\ UNCHANGED <<stdout, exit_code>>
    /\ UNCHANGED <<environment, args, env, file_exists,
                   object_name>>
    /\ UNCHANGED <<sanVars, urlVars>>

\* generate_presigned_url(): timedelta(days=expiry_days), which raises
\* OverflowError before the client is called when the days are out of range,
\* then client.presigned_get_object(bucket, object_name, expires)
PresignedGetObject ==
    /\ pc = "presign"
    /\ IF TimedeltaOverflows(args.expiry)
       THEN Uncaught /\ UNCHANGED <<calls, presigned_url>>
       ELSE \E result \in {"ok", "S3Error", "raise"} :
              /\ calls' = Append(calls,
                                 Call("presigned_get_object", object_name, result))
              /\ CASE result = "ok" ->
                        /\ presigned_url' =
                             PresignedUrlOf(env.bucket, object_name, args.expiry)
                        /\ pc' = "output"
                        /\ UNCHANGED <<stdout, stderr, exit_code>>
                   [] result = "S3Error" ->
                        Exit(1, "Error generating URL", Opaque)
                            /\ UNCHANGED presigned_url
                   [] result = "raise" -> Uncaught /\ UNCHANGED presigned_url
    /\ UNCHANGED <<environment, args, env, file_exists,
                   object_name>>
    /\ UNCHANGED <<sanVars, urlVars>>

\* main(): generate_console_url(), which may raise, then the print of the
\* result.  With sys.stdout None, print() does nothing and the process ends
\* with status 0.  When the write fails, nothing or a prefix of the text has
\* reached standard output, and either print() raises or the flush at
\* interpreter exit fails.  json.dumps() yields ASCII; the presigned URL of
\* the plain mode is the client's string, which the encoder of standard
\* output may refuse (UnicodeEncodeError, nothing written).
Output ==
    /\ pc = "output"
    /\ LET console_url ==
               generate_console_url(env.console_url, env.bucket, object_name)
           result ==
               IF args.json
               THEN [kind |-> "json", success |-> TRUE,
                     object_name |-> object_name, bucket |-> env.bucket,
                     presigned_url |-> presigned_url,
                     console_url |-> console_url,
                     expiry_days |-> args.expiry]
               ELSE [kind |-> "plain", presigned_url |-> presigned_url]
       IN  IF console_url = Raises
           THEN Uncaught
           ELSE \E encoded \in (IF args.json THEN {TRUE} ELSE Encodes(Opaque)) :
                  IF sys_stdout = "open" /\ ~encoded
                  THEN Uncaught
                  ELSE /\ \E d \in Delivered(sys_stdout, Text("result", result)) :
                             stdout' = stdout \o d
                       /\ IF sys_stdout = "failing"
                          THEN Traceback \/ FlushFails
                          ELSE pc' = "exit" /\ exit_code' = 0 /\ UNCHANGED stderr
    /\ UNCHANGED <<environment, args, env, file_exists,
                   object_name, presigned_url, calls>>
    /\ UNCHANGED <<sanVars, urlVars>>

MainNext ==
    \/ ImportModules
    \/ ParseArgs
    \/ ResolveObjectName
    \/ GetEnvConfig
    \/ CreateClient
    \/ CheckFileExists
    \/ BucketExists
    \/ FputObject
    \/ PresignedGetObject
    \/ Output

---------------------------------------------------------------------------
(* sanitize_filename on its own: every title up to MaxTitleLen characters  *)
(* over an alphabet with one character of each class, every max_length up  *)
(* to MaxMaxLength and a negative one.                                     *)

\* 'a', '_', ' ', '?', TAB (a control character), NO-BREAK SPACE
SanAlphabet == {97, 95, 32, 63, 9, 160}

SanTitles ==
    {None, <<>>} \cup UNION {[1..n -> SanAlphabet] : n \in 1..MaxTitleLen}

MaxLengths == {-1} \cup (0..MaxMaxLength)

SanIdle ==
    /\ san_pc = "idle"
    /\ san_title = None
    /\ san_max = DefaultMaxLength
    /\ san_out = None
    /\ san_twice = None

SanInit ==
    /\ san_pc = "start"
    /\ san_title \in SanTitles
    /\ san_max = DefaultMaxLength
    /\ san_out = None
    /\ san_twice = None

\* sanitize_filename(title, max_length), and once more on its own result
Sanitize ==
    /\ san_pc = "start"
    /\ \E max_length \in MaxLengths :
         /\ san_max' = max_length
         /\ san_out' = sanitize_filename(san_title, max_length)
         /\ san_twice' = sanitize_filename(
                             sanitize_filename(san_title, max_length), max_length)
    /\ san_pc' = "done"
    /\ UNCHANGED <<san_title, mainVars, urlVars>>

---------------------------------------------------------------------------
(* generate_console_url on its own.                                        *)

\* 'a', ' ', '/', '#', '%', '?', '_', U+00E9, U+20AC, the surrogate U+DC80
UrlAlphabet == {97, 32, 47, 35, 37, 63, 95, 233, 8364, 56448}

ExampleKey == <<97, 32, 98, 47, 99, 35, 100, 46, 112, 110, 103>>   \* "a b/c#d.png"

UrlKeys ==
    {<<>>, ExampleKey} \cup UNION {[1..n -> UrlAlphabet] : n \in 1..MaxKeyLen}

UrlBases ==
    { ExampleConsoleUrl,
      RStripChars(ExampleConsoleUrl, {Slash}),          \* no trailing slash
      <<104, 116, 116, 112, 58, 47, 47, 99, 47, 47>> }  \* "http://c//"

UrlBuckets == {ExampleBucket, <<98, 49>>}   \* "media", "b1"

UrlIdle ==
    /\ url_pc = "idle"
    /\ url_in = [console_url |-> <<>>, bucket |-> <<>>, object_name |-> <<>>]
    /\ url_out = None

UrlInit ==
    /\ url_pc = "start"
    /\ url_in \in [console_url : UrlBases, bucket : UrlBuckets,
                   object_name : UrlKeys]
    /\ url_out = None

GenerateConsoleUrl ==
    /\ url_pc = "start"
    /\ url_out' = generate_console_url(url_in.console_url, url_in.bucket,
                                       url_in.object_name)
    /\ url_pc' = "done"
    /\ UNCHANGED <<url_in, mainVars, sanVars>>

---------------------------------------------------------------------------
(* Specifications.                                                         *)

Init == MainInit /\ SanIdle /\ UrlIdle

Next == MainNext

Spec == Init /\ [][Next]_vars

InitSanitize == MainIdle /\ SanInit /\ UrlIdle

NextSanitize == Sanitize

SpecSanitize == InitSanitize /\ [][NextSanitize]_vars

InitConsole == MainIdle /\ SanIdle /\ UrlInit

NextConsole == GenerateConsoleUrl

SpecConsole == InitConsole /\ [][NextConsole]_vars

---------------------------------------------------------------------------
(* Properties of main() (specification Spec).                              *)

Succeeded(call) == call.result \in {"true", "ok"}

CallOrder == <<"bucket_exists", "fput_object", "presigned_get_object">>

BucketReportedMissing ==
    \E i \in 1..Len(calls) :
        calls[i].op = "bucket_exists" /\ calls[i].result = "false"

BucketError == ErrorText("Error: Bucket does not exist", env.bucket)

\* no result, whole or in part, is on standard output
NoResultOnStdout == \A k \in 1..Len(stdout) : stdout[k].kind # "result"

\* C1: once bucket_exists has returned false the invocation has failed (exit
\* status non-zero, and the bucket error message is the only text written: on
\* standard error when that is open; with standard error closed, on standard
\* output when that is open and can encode the bucket name, and nowhere when
\* it cannot), no fput_object and no presigned_get_object call follows, and no
\* result is on standard output.
C1_BucketMissingAborts ==
    \A i \in 1..Len(calls) :
        (calls[i].op = "bucket_exists" /\ calls[i].result = "false") =>
            /\ \A j \in 1..Len(calls) :
                   calls[j].op \notin {"fput_object", "presigned_get_object"}
            /\ i = Len(calls)
            /\ pc = "exit"
            /\ exit_code # 0
            /\ NoResultOnStdout
            /\ \A k \in 1..Len(stdout) :
                   stdout[k].kind = "error" /\ stdout[k].body = BucketError.body
            /\ \A k \in 1..Len(stderr) :
                   stderr[k].kind = "error" /\ stderr[k].body = BucketError.body
            /\ sys_stderr = "open" =>
                   (stderr = <<BucketError>> /\ stdout = <<>> /\ exit_code = 1)
            /\ (sys_stderr = "closed" /\ sys_stdout = "open") =>
                   /\ exit_code = 1
                   /\ stderr = <<>>
                   /\ stdout = IF Encodable(env.bucket, stdout_encoding)
                               THEN <<BucketError>>
                               ELSE <<>>

C1_Witness ==
    /\ BucketReportedMissing
    /\ pc = "exit"
    /\ exit_code = 1
    /\ file_exists = "yes"
    /\ stderr = <<BucketError>>

AllStepsSucceeded ==
    /\ file_exists = "yes"
    /\ Len(calls) = 3
    /\ \A i \in 1..3 : calls[i].op = CallOrder[i] /\ Succeeded(calls[i])

SomeStepFailed ==
    \/ file_exists = "no"
    \/ \E i \in 1..Len(calls) : ~Succeeded(calls[i])

\* the text is the result main() builds from the outcome of the calls: the
\* presigned URL, or the JSON object with all six keys
IsResultOfCalls(text) ==
    /\ text.kind = "result"
    /\ text.body.presigned_url
           = PresignedUrlOf(env.bucket, calls[2].key, args.expiry)
    /\ text.body.kind = (IF args.json THEN "json" ELSE "plain")
    /\ text.body.kind = "json" =>
          /\ DOMAIN text.body = {"kind", "success", "object_name", "bucket",
                                 "presigned_url", "console_url", "expiry_days"}
          /\ text.body.success = TRUE
          /\ text.body.object_name = calls[2].key
          /\ text.body.bucket = env.bucket
          /\ text.body.console_url \notin {None, Raises}
          /\ text.body.expiry_days = args.expiry

\* C2, for the invocations that reached main() with an accepted command line:
\* standard output is written only when the file-existence check, the bucket
\* check, the upload and the presign call all succeeded, and then it holds one
\* complete result; when any of these steps failed, standard output is empty
\* and the process has ended with a non-zero status.
C2_NoPartialResult ==
    (modules = "installed" /\ argv.kind = "accepted") =>
        /\ stdout # <<>> =>
              /\ AllStepsSucceeded
              /\ Len(stdout) = 1
              /\ stdout[1].whole
              /\ IsResultOfCalls(stdout[1])
        /\ (pc = "exit" /\ SomeStepFailed) => (stdout = <<>> /\ exit_code # 0)

\* the key the precedence rule of the object-key resolver asks for
ExpectedKey ==
    IF Truthy(args.title)
    THEN sanitize_filename(args.title, DefaultMaxLength)
             \o Lower(SplitExt(args.file_path))
    ELSE IF Truthy(args.name) THEN args.name
    ELSE SubSeq(args.file_path, RFind(args.file_path, Slash) + 1,
                Len(args.file_path))

MyVideoTitle == <<77, 121, 32, 86, 105, 100, 101, 111, 33>>              \* "My Video!"
IgnoredName == <<105, 103, 110, 111, 114, 101, 100, 46, 109, 112, 52>>   \* "ignored.mp4"
XMp4Path == <<120, 46, 109, 112, 52>>                                    \* "x.mp4"
MyVideoKey == <<77, 121, 95, 86, 105, 100, 101, 111, 33, 46, 109, 112, 52>>
                                                                         \* "My_Video!.mp4"
ReportPath ==   \* "/tmp/report.pdf"
    <<47, 116, 109, 112, 47, 114, 101, 112, 111, 114, 116, 46, 112, 100, 102>>
ReportKey == <<114, 101, 112, 111, 114, 116, 46, 112, 100, 102>>         \* "report.pdf"

KeyResolved == pc \in {"bucket", "fput", "presign", "output"} \/ calls # <<>>

\* C3: the object key is sanitize(title) + lowercased extension of the file
\* path when a (non-empty) title is given, whatever the explicit name; else
\* the explicit name verbatim when a (non-empty) one is given; else the last
\* segment of the file path.  It is the key of every upload and presign call
\* and of the result.
C3_KeyPrecedence ==
    KeyResolved =>
        /\ object_name = ExpectedKey
        /\ \A i \in 1..Len(calls) :
               calls[i].op # "bucket_exists" => calls[i].key = ExpectedKey
        /\ \A i \in 1..Len(stdout) :
               (stdout[i].kind = "result" /\ stdout[i].body.kind = "json")
                   => stdout[i].body.object_name = ExpectedKey
        /\ (args.title = MyVideoTitle /\ args.file_path = XMp4Path)
               => object_name = MyVideoKey
        /\ (~Truthy(args.title) /\ ~Truthy(args.name)
                /\ args.file_path = ReportPath) => object_name = ReportKey

C3_Witness ==
    /\ args.title = MyVideoTitle
    /\ args.name = IgnoredName
    /\ args.file_path = XMp4Path
    /\ \E i \in 1..Len(calls) :
           calls[i].op = "fput_object" /\ calls[i].key = MyVideoKey

\* C4: the object key handed to fput_object is never the empty string.
C4_KeyNeverEmpty ==
    \A i \in 1..Len(calls) :
        calls[i].op = "fput_object" => calls[i].key # <<>>

\* C10 as stated: the storage-client calls are a prefix of <bucket_exists,
\* fput_object, presigned_get_object>, each made at most once and only after
\* the file was found and every earlier call succeeded; an invocation that
\* ended with status 0 made exactly one upload.
C10_CallsFormPrefix ==
    /\ Len(calls) <= 3
    /\ \A i \in 1..Len(calls) : calls[i].op = CallOrder[i]
    /\ \A i \in 2..Len(calls) : Succeeded(calls[i - 1])
    /\ calls # <<>> => file_exists = "yes"
    /\ (pc \in {"presign", "output"}) => Succeeded(calls[Len(calls)])
    /\ (pc = "exit" /\ exit_code = 0) =>
           Cardinality({i \in 1..Len(calls) : calls[i].op = "fput_object"}) = 1

\* C10, amended: the storage-client calls are a prefix of <bucket_exists,
\* fput_object, presigned_get_object>, each made at most once and only after
\* the file was found and every earlier call succeeded; an invocation that
\* ended with status 0 made exactly one upload, after a successful bucket
\* check and before a successful presign call, unless it was a --help
\* request, which made no call at all.
C10_CallsFormPrefixUnlessHelp ==
    /\ Len(calls) <= 3
    /\ \A i \in 1..Len(calls) : calls[i].op = CallOrder[i]
    /\ \A i \in 2..Len(calls) : Succeeded(calls[i - 1])
    /\ calls # <<>> => file_exists = "yes"
    /\ (pc \in {"presign", "output"}) => Succeeded(calls[Len(calls)])
    /\ (pc = "exit" /\ exit_code = 0) =>
           IF argv.kind = "help"
           THEN calls = <<>> /\ file_exists = "unasked"
           ELSE /\ Cardinality({i \in 1..Len(calls) :
                                    calls[i].op = "fput_object"}) = 1
                /\ AllStepsSucceeded

C10_Witness ==
    /\ pc = "exit"
    /\ Len(calls) = 2
    /\ calls[2].op = "fput_object"
    /\ calls[2].result = "S3Error"
    /\ exit_code = 1

---------------------------------------------------------------------------
(* Properties of sanitize_filename (specification SpecSanitize).           *)

Sanitized == san_pc = "done" /\ san_out # None

\* the title before truncation
Untruncated ==
    StripChars(CollapseRuns(ReplaceIllegal(san_title)), {Space, Underscore})

\* C5, as claimed: the output is never longer than max_length, whatever
\* max_length is (read here for the lengths, max_length >= 0).
C5_LengthAtMostMax == (Sanitized /\ san_max >= 0) => Len(san_out) <= san_max

\* C5, amended: for a max_length of at least 4 (the length of the fallback
\* "file") the output of a non-empty title is never longer than max_length.
C5_LengthAtMostMaxFrom4 ==
    (Sanitized /\ san_max >= Len(FallbackName)) => Len(san_out) <= san_max

C5_Witness ==
    /\ Sanitized
    /\ san_max = 4
    /\ Len(Untruncated) = 5
    /\ Len(san_out) = 4

OnlyIllegalOrBlank(s) ==
    \A i \in 1..Len(s) :
        s[i] \in IllegalChars \cup WhitespaceChars \cup {Underscore}

\* C6: a (non-empty) title made only of illegal characters, control
\* characters, whitespace and underscores is sanitized to exactly "file".
C6_OnlyIllegalGivesFile ==
    (san_pc = "done" /\ Truthy(san_title) /\ OnlyIllegalOrBlank(san_title))
        => san_out = <<102, 105, 108, 101>>

C6_Witness ==
    /\ san_pc = "done"
    /\ san_title = <<63, 9, 32, 95, 160>>
    /\ san_out = <<102, 105, 108, 101>>

\* C7, as claimed: sanitizing twice with the same max_length gives what
\* sanitizing once gives, whatever max_length is (read here for the lengths,
\* max_length >= 0).
C7_Idempotent == (san_pc = "done" /\ san_max >= 0) => san_twice = san_out

\* C7, amended: sanitizing twice with the same max_length of at least 4 gives
\* what sanitizing once gives.
C7_IdempotentFrom4 ==
    (san_pc = "done" /\ san_max >= Len(FallbackName)) => san_twice = san_out

C7_Witness ==
    /\ san_pc = "done"
    /\ san_max = 4
    /\ san_title = <<97, 32, 97, 63, 97>>
    /\ san_out = <<97, 95, 97>>
    /\ san_twice = <<97, 95, 97>>

\* C8: the output holds no illegal character, no control character and no
\* whitespace, no two adjacent underscores, and neither starts nor ends with
\* an underscore.
C8_OutputIsClean ==
    Sanitized =>
        /\ \A i \in 1..Len(san_out) :
               san_out[i] \notin IllegalChars \cup WhitespaceChars
        /\ \A i \in 1..(Len(san_out) - 1) :
               ~(san_out[i] = Underscore /\ san_out[i + 1] = Underscore)
        /\ san_out # <<>>
        /\ san_out[1] # Underscore
        /\ san_out[Len(san_out)] # Underscore

C8_Witness ==
    /\ Sanitized
    /\ san_title = <<63, 97, 32, 95, 97>>
    /\ san_out = <<97, 95, 97>>

---------------------------------------------------------------------------
(* Properties of generate_console_url (specification SpecConsole).         *)

\* RFC 3986 unreserved characters
Unreserved == (65..90) \cup (97..122) \cup (48..57) \cup {45, 46, 95, 126}

HexValue(c) == IF c >= 48 /\ c <= 57 THEN c - 48 ELSE c - 55

IsUpperHex(c) == (c >= 48 /\ c <= 57) \/ (c >= 65 /\ c <= 70)

\* the bytes a percent-encoded text stands for; <<-1>> when it is malformed
\* or holds a literal character that is neither unreserved nor '/'
RECURSIVE PercentDecode(_)
PercentDecode(t) ==
    IF t = <<>> THEN <<>>
    ELSE IF t[1] = Percent
         THEN IF Len(t) >= 3 /\ IsUpperHex(t[2]) /\ IsUpperHex(t[3])
              THEN LET rest == PercentDecode(SubSeq(t, 4, Len(t)))
                   IN  IF rest = <<-1>> THEN <<-1>>
                       ELSE <<16 * HexValue(t[2]) + HexValue(t[3])>> \o rest
              ELSE <<-1>>
         ELSE IF t[1] \in Unreserved \cup {Slash}
              THEN LET rest == PercentDecode(Tail(t))
                   IN  IF rest = <<-1>> THEN <<-1>> ELSE <<t[1]>> \o rest
              ELSE <<-1>>

RECURSIVE Utf8Bytes(_)
Utf8Bytes(s) == IF s = <<>> THEN <<>> ELSE Utf8(s[1]) \o Utf8Bytes(Tail(s))

RECURSIVE EncodedLength(_)
EncodedLength(bytes) ==
    IF bytes = <<>> THEN 0
    ELSE (IF bytes[1] \in Unreserved \cup {Slash} THEN 1 ELSE 3)
             + EncodedLength(Tail(bytes))

\* the base without its trailing slashes: its longest prefix not ending in '/'
BaseWithoutTrailingSlash(base) ==
    LET ends == {k \in 0..Len(base) : k = 0 \/ base[k] # Slash}
    IN  SubSeq(base, 1, CHOOSE k \in ends : \A j \in ends : j <= k)

ExampleUrl ==   \* "https://console.example.com/browser/media/a%20b/c%23d.png"
    <<104, 116, 116, 112, 115, 58, 47, 47, 99, 111, 110, 115, 111, 108, 101, 46,
      101, 120, 97, 109, 112, 108, 101, 46, 99, 111, 109, 47, 98, 114, 111, 119,
      115, 101, 114, 47, 109, 101, 100, 105, 97, 47, 97, 37, 50, 48, 98, 47, 99,
      37, 50, 51, 100, 46, 112, 110, 103>>

IsExample ==
    /\ url_in.console_url = ExampleConsoleUrl
    /\ url_in.bucket = ExampleBucket
    /\ url_in.object_name = ExampleKey

\* C9: the console URL is the base without trailing slash + "/browser/" +
\* bucket + "/" + the key percent-encoded: '/' and the unreserved characters
\* stay literal, every other byte of the key's UTF-8 form becomes %XX; the
\* example of the specification comes out as stated.  A key with a surrogate
\* code point has no UTF-8 form and hence no console URL: the function raises.
C9_ConsoleUrl ==
    url_pc = "done" =>
        IF \E i \in 1..Len(url_in.object_name) :
               url_in.object_name[i] \in 55296..57343
        THEN url_out = <<-3>>
        ELSE LET head == BaseWithoutTrailingSlash(url_in.console_url)
                             \o <<47, 98, 114, 111, 119, 115, 101, 114, 47>>
                             \o url_in.bucket \o <<47>>
                 tail == SubSeq(url_out, Len(head) + 1, Len(url_out))
                 bytes == Utf8Bytes(url_in.object_name)
             IN  /\ url_out # <<-3>>
                 /\ Len(url_out) >= Len(head)
                 /\ SubSeq(url_out, 1, Len(head)) = head
                 /\ PercentDecode(tail) = bytes
                 /\ Len(tail) = EncodedLength(bytes)
                 /\ IsExample => url_out = ExampleUrl

C9_Witness ==
    /\ url_pc = "done"
    /\ IsExample
    /\ url_out = ExampleUrl

====
